---- MODULE Spec2Model ----
(***************************************************************************)
(* Model of scripts/align_elf_16kb.py: re-alignment of the PT_LOAD         *)
(* segments of a 64-bit ELF image to 16 KB pages.                          *)
(*                                                                         *)
(* A byte buffer (bytes / bytearray) is modelled sparsely: its length and  *)
(* the function from the 0-based positions of its non-zero bytes to their  *)
(* values.  Two buffers are byte-identical iff the two records are equal.  *)
(* Unsigned little-endian fields keep their width in bytes; decoded values *)
(* of 2^24 or more are collapsed to the single value Huge.                 *)
(***************************************************************************)
EXTENDS Integers, Naturals, Sequences, FiniteSets, TLC

\* ------------------------------------------------------------ constants
PAGE_16K == 16384
EI_CLASS == 4
ELFCLASS64 == 2
PT_LOAD == 1
PT_PHDR == 6
EHDR_SIZE == 64
PHDR_SIZE == 56
SHDR_SIZE == 64
phoff_pos == 32
shoff_pos == 40
OFF_SIZE == 8

\* ------------------------------------------------------------ bounds
MaxPh == 2
MaxRuns == 2

Huge == 16777216

Min(a, b) == IF a < b THEN a ELSE b
Max(a, b) == IF a > b THEN a ELSE b

\* ------------------------------------------------------------ byte buffers
EmptyNz == [i \in {} |-> 0]
NoFile == [len |-> -1, nz |-> EmptyNz]
EmptyBuf == [len |-> 0, nz |-> EmptyNz]

ByteAt(b, i) == IF i \in DOMAIN b.nz THEN b.nz[i] ELSE 0

\* bytes(seq) / bytearray(seq)
FromBytes(s) ==
  [len |-> Len(s),
   nz  |-> [i \in {k - 1 : k \in {j \in 1..Len(s) : s[j] # 0}} |-> s[i + 1]]]

\* b"\x00" * n
Zeros(n) == [len |-> n, nz |-> EmptyNz]

\* b[a:e] with Python's clipping of slice bounds
Slice(b, a, e) ==
  LET lo == Min(a, b.len)
      hi == Max(lo, Min(e, b.len))
  IN [len |-> hi - lo,
      nz  |-> [i \in {k - lo : k \in {j \in DOMAIN b.nz : j >= lo /\ j < hi}}
                 |-> b.nz[i + lo]]]

\* bytearray.extend
Extend(x, y) ==
  [len |-> x.len + y.len,
   nz  |-> [i \in (DOMAIN x.nz) \cup {k + x.len : k \in DOMAIN y.nz}
              |-> IF i < x.len THEN x.nz[i] ELSE y.nz[i - x.len]]]

\* b[a:e] = src   (slice assignment: the slice is replaced by src, whatever
\* the two lengths are)
SliceAssign(b, a, e, src) ==
  LET lo == Min(a, b.len)
      hi == Max(lo, Min(e, b.len))
  IN Extend(Extend(Slice(b, 0, lo), src), Slice(b, hi, b.len))

\* struct.pack_into(fmt, b, pos, v): overwrites len(bytes) bytes at pos
PackInto(b, pos, s) == SliceAssign(b, pos, pos + Len(s), FromBytes(s))

\* ------------------------------------------------------------ struct codec
Pow256(k) == IF k = 0 THEN 1 ELSE IF k = 1 THEN 256 ELSE IF k = 2 THEN 65536 ELSE 16777216

\* struct.pack of one unsigned little-endian field of n bytes
LE(v, n) == [i \in 1..n |-> IF i <= 3 THEN (v \div Pow256(i - 1)) % 256 ELSE 0]

\* struct.unpack of one unsigned little-endian field of n bytes at off
U(b, off, n) ==
  IF \E k \in 3..(n - 1) : ByteAt(b, off + k) # 0
  THEN Huge
  ELSE ByteAt(b, off) + 256 * ByteAt(b, off + 1)
       + (IF n > 2 THEN 65536 * ByteAt(b, off + 2) ELSE 0)

\* struct.unpack_from raises struct.error unless the record fits the buffer
Fits(b, off, size) == off >= 0 /\ off + size <= b.len

parse_elf64_ehdr(data) ==
  [e_ident     |-> [i \in 1..16 |-> ByteAt(data, i - 1)],
   e_type      |-> U(data, 16, 2),
   e_machine   |-> U(data, 18, 2),
   e_version   |-> U(data, 20, 4),
   e_entry     |-> U(data, 24, 8),
   e_phoff     |-> U(data, 32, 8),
   e_shoff     |-> U(data, 40, 8),
   e_flags     |-> U(data, 48, 4),
   e_ehsize    |-> U(data, 52, 2),
   e_phentsize |-> U(data, 54, 2),
   e_phnum     |-> U(data, 56, 2),
   e_shentsize |-> U(data, 58, 2),
   e_shnum     |-> U(data, 60, 2),
   e_shstrndx  |-> U(data, 62, 2)]

parse_elf64_phdr(data, offset) ==
  [p_type   |-> U(data, offset, 4),
   p_flags  |-> U(data, offset + 4, 4),
   p_offset |-> U(data, offset + 8, 8),
   p_vaddr  |-> U(data, offset + 16, 8),
   p_paddr  |-> U(data, offset + 24, 8),
   p_filesz |-> U(data, offset + 32, 8),
   p_memsz  |-> U(data, offset + 40, 8),
   p_align  |-> U(data, offset + 48, 8)]

pack_elf64_phdr(phdr) ==
  LE(phdr.p_type, 4) \o LE(phdr.p_flags, 4) \o LE(phdr.p_offset, 8)
  \o LE(phdr.p_vaddr, 8) \o LE(phdr.p_paddr, 8) \o LE(phdr.p_filesz, 8)
  \o LE(phdr.p_memsz, 8) \o LE(phdr.p_align, 8)

parse_elf64_shdr(data, offset) ==
  [sh_name      |-> U(data, offset, 4),
   sh_type      |-> U(data, offset + 4, 4),
   sh_flags     |-> U(data, offset + 8, 8),
   sh_addr      |-> U(data, offset + 16, 8),
   sh_offset    |-> U(data, offset + 24, 8),
   sh_size      |-> U(data, offset + 32, 8),
   sh_link      |-> U(data, offset + 40, 4),
   sh_info      |-> U(data, offset + 44, 4),
   sh_addralign |-> U(data, offset + 48, 8),
   sh_entsize   |-> U(data, offset + 56, 8)]

pack_elf64_shdr(shdr) ==
  LE(shdr.sh_name, 4) \o LE(shdr.sh_type, 4) \o LE(shdr.sh_flags, 8)
  \o LE(shdr.sh_addr, 8) \o LE(shdr.sh_offset, 8) \o LE(shdr.sh_size, 8)
  \o LE(shdr.sh_link, 4) \o LE(shdr.sh_info, 4) \o LE(shdr.sh_addralign, 8)
  \o LE(shdr.sh_entsize, 8)

\* needed_padding without the want_mod > cur_mod case
needed_padding_nowrap(current_offset, vaddr, page_size) ==
  LET cur_mod  == current_offset % page_size
      want_mod == vaddr % page_size
  IN IF cur_mod = want_mod THEN 0
     ELSE page_size - cur_mod + want_mod

needed_padding(current_offset, vaddr, page_size) ==
  LET cur_mod  == current_offset % page_size
      want_mod == vaddr % page_size
  IN IF cur_mod = want_mod THEN 0
     ELSE IF want_mod > cur_mod THEN want_mod - cur_mod
     ELSE page_size - cur_mod + want_mod

\* ------------------------------------------------------------ input images
\* Images are laid out as the usual shared object: ELF header, program
\* header table at byte 64, the section contents, then the section header
\* table.  Every program header of an image is one of PhChoices.
Magic == <<127, 69, 76, 70>>
Content == <<65, 66, 67, 68, 69, 70, 71, 72>>
PT_DYNAMIC == 2

Ph(t, off, va, al) ==
  [p_type |-> t, p_flags |-> 5, p_offset |-> off, p_vaddr |-> va,
   p_paddr |-> va, p_filesz |-> 8, p_memsz |-> 8, p_align |-> al]

PhChoices ==
  { Ph(PT_LOAD, 0, 0, 4096),        \* congruent, small p_align
    Ph(PT_LOAD, 0, 0, 16384),       \* congruent, page aligned
    Ph(PT_LOAD, 0, 8, 4096),        \* 8 bytes of padding at offset 0
    Ph(PT_LOAD, 16, 4096, 4096),    \* padding inside the ELF header
    Ph(PT_LOAD, 120, 16504, 4096),  \* congruent at offset 120
    Ph(PT_LOAD, 120, 4096, 4096),   \* padding at offset 120
    Ph(PT_LOAD, 120, 4096, 16384),  \* page aligned but not congruent
    Ph(PT_LOAD, 200, 4096, 4096),   \* padding inside the section table
    Ph(PT_LOAD, 1000, 0, 4096),     \* padding past the end of the file
    Ph(PT_PHDR, 64, 64, 8),
    Ph(PT_DYNAMIC, 120, 120, 8) }

RECURSIVE SeqsUpTo(_, _)
SeqsUpTo(S, n) ==
  IF n = 0 THEN {<<>>}
  ELSE LET R == SeqsUpTo(S, n - 1)
       IN R \cup {Append(r, x) : r \in {q \in R : Len(q) = n - 1}, x \in S}

Sh(name, off, size) ==
  [sh_name |-> name, sh_type |-> IF size = 0 THEN 0 ELSE 1, sh_flags |-> 0,
   sh_addr |-> 0, sh_offset |-> off, sh_size |-> size, sh_link |-> 0,
   sh_info |-> 0, sh_addralign |-> IF size = 0 THEN 0 ELSE 1, sh_entsize |-> 0]

pack_elf64_ehdr(e) ==
  e.e_ident \o LE(e.e_type, 2) \o LE(e.e_machine, 2) \o LE(e.e_version, 4)
  \o LE(e.e_entry, 8) \o LE(e.e_phoff, 8) \o LE(e.e_shoff, 8)
  \o LE(e.e_flags, 4) \o LE(e.e_ehsize, 2) \o LE(e.e_phentsize, 2)
  \o LE(e.e_phnum, 2) \o LE(e.e_shentsize, 2) \o LE(e.e_shnum, 2)
  \o LE(e.e_shstrndx, 2)

RECURSIVE PhTable(_, _, _)
PhTable(phs, entsize, i) ==
  IF i > Len(phs) THEN <<>>
  ELSE pack_elf64_phdr(phs[i]) \o [k \in 1..(entsize - PHDR_SIZE) |-> 238]
       \o PhTable(phs, entsize, i + 1)

MkImage(magic, cls, entsize, phs) ==
  LET body  == EHDR_SIZE + Len(phs) * entsize
      shoff == body + Len(Content)
      eh == [e_ident |-> magic \o <<cls, 1, 1>> \o [k \in 1..9 |-> 0],
             e_type |-> 3, e_machine |-> 183, e_version |-> 1,
             e_entry |-> 4660, e_phoff |-> EHDR_SIZE, e_shoff |-> shoff,
             e_flags |-> 0, e_ehsize |-> EHDR_SIZE, e_phentsize |-> entsize,
             e_phnum |-> Len(phs), e_shentsize |-> SHDR_SIZE, e_shnum |-> 2,
             e_shstrndx |-> 0]
  IN FromBytes(pack_elf64_ehdr(eh) \o PhTable(phs, entsize, 1) \o Content
               \o pack_elf64_shdr(Sh(0, 0, 0))
               \o pack_elf64_shdr(Sh(1, body, Len(Content))))

WellFormedImages ==
  { MkImage(Magic, ELFCLASS64, es, phs) :
      es \in {PHDR_SIZE, 64}, phs \in SeqsUpTo(PhChoices, MaxPh) \ {<<>>} }

RejectedImages ==
  { MkImage(m, c, PHDR_SIZE, <<Ph(PT_LOAD, 0, 8, 4096)>>) :
      m \in {Magic, <<127, 69, 76, 71>>}, c \in {1, ELFCLASS64} }
  \ WellFormedImages

TruncatedImages ==
  { Slice(MkImage(Magic, ELFCLASS64, PHDR_SIZE, <<Ph(PT_LOAD, 0, 8, 4096)>>), 0, n) :
      n \in {4, 60, 100} }

Images == WellFormedImages \cup RejectedImages \cup TruncatedImages

\* ------------------------------------------------------------ state
Paths == {"lib", "out", "lib.bak", "out.bak"}
Bak(p) == IF p = "lib" THEN "lib.bak" ELSE "out.bak"

VARIABLES
  fs,            \* the files: path -> buffer, NoFile when absent
  pc,            \* position of the running invocation, "idle" when none
  status,        \* how the last invocation ended
  runs,          \* invocations started so far
  input_path, output_path,
  data, ehdr, phdrs, shdrs,
  insertions, cumulative_shift,
  new_data, shift_at,
  fs0,           \* the files when the invocation started
  writes,        \* the paths the invocation has written, in order
  produced,      \* the paths that hold the output of a successful invocation
  rerun          \* the invocation reads a file of produced

vars == <<fs, pc, status, runs, input_path, output_path, data, ehdr, phdrs,
          shdrs, insertions, cumulative_shift, new_data, shift_at, fs0, writes,
          produced, rerun>>

locals == <<data, ehdr, phdrs, shdrs, insertions, cumulative_shift,
            new_data, shift_at>>

Init ==
  /\ fs \in {[p \in Paths |-> IF p = "lib" THEN img ELSE NoFile] : img \in Images}
  /\ pc = "idle"
  /\ status = "none"
  /\ runs = 0
  /\ input_path = "lib"
  /\ output_path = "lib"
  /\ data = EmptyBuf
  /\ ehdr = parse_elf64_ehdr(EmptyBuf)
  /\ phdrs = <<>>
  /\ shdrs = <<>>
  /\ insertions = <<>>
  /\ cumulative_shift = 0
  /\ new_data = EmptyBuf
  /\ shift_at = <<>>
  /\ fs0 = fs
  /\ writes = <<>>
  /\ produced = {}
  /\ rerun = FALSE

\* ------------------------------------------------------------ main
\* main(): argv = [input] or [input, output]; in-place mode copies the input
\* to its .bak first, then realign_elf(input_path, output_path) starts.
Main(inp, outp) ==
  /\ pc = "idle"
  /\ runs < MaxRuns
  /\ fs[inp] # NoFile
  /\ runs' = runs + 1
  /\ fs0' = fs
  /\ input_path' = inp
  /\ IF outp = "none"
     THEN /\ fs' = [fs EXCEPT ![Bak(inp)] = fs[inp]]
          /\ writes' = <<Bak(inp)>>
          /\ output_path' = inp
     ELSE /\ fs' = fs
          /\ writes' = <<>>
          /\ output_path' = outp
  /\ pc' = "read"
  /\ status' = "running"
  /\ rerun' = (inp \in produced)
  /\ produced' = produced
  /\ data' = EmptyBuf
  /\ ehdr' = parse_elf64_ehdr(EmptyBuf)
  /\ phdrs' = <<>>
  /\ shdrs' = <<>>
  /\ insertions' = <<>>
  /\ cumulative_shift' = 0
  /\ new_data' = EmptyBuf
  /\ shift_at' = <<>>

\* ------------------------------------------------------------ realign_elf
\* the checks with the class byte looked at before the magic
ValidationErrorClassFirst(d) ==
  IF ~(EI_CLASS < d.len) THEN "index_error"
  ELSE IF ByteAt(d, EI_CLASS) # ELFCLASS64 THEN "bad_class"
  ELSE IF [i \in 1..Slice(d, 0, 4).len |-> ByteAt(d, i - 1)] # Magic THEN "not_elf"
  ELSE "ok"

\* The magic and class checks: the error raised, "ok" when none is.
ValidationError(d) ==
  IF [i \in 1..Slice(d, 0, 4).len |-> ByteAt(d, i - 1)] # Magic THEN "not_elf"
  ELSE IF ~(EI_CLASS < d.len) THEN "index_error"
  ELSE IF ByteAt(d, EI_CLASS) # ELFCLASS64 THEN "bad_class"
  ELSE "ok"

ReadValidate ==
  /\ pc = "read"
  /\ data' = fs[input_path]
  /\ LET err == ValidationError(fs[input_path])
     IN IF err = "ok"
        THEN pc' = "parse" /\ status' = status
        ELSE pc' = "idle" /\ status' = err
  /\ UNCHANGED <<fs, runs, input_path, output_path, ehdr, phdrs, shdrs,
                 insertions, cumulative_shift, new_data, shift_at, fs0, writes,
                 produced, rerun>>

ParsePhdrs(d, eh) ==
  [i \in 1..eh.e_phnum |-> parse_elf64_phdr(d, eh.e_phoff + (i - 1) * eh.e_phentsize)]

ParseShdrs(d, eh) ==
  [i \in 1..eh.e_shnum |-> parse_elf64_shdr(d, eh.e_shoff + (i - 1) * eh.e_shentsize)]

\* every struct.unpack_from of the Header Reader stays inside the buffer
ParseFits(d) ==
  /\ Fits(d, 0, EHDR_SIZE)
  /\ LET eh == parse_elf64_ehdr(d)
     IN /\ \A i \in 1..eh.e_phnum :
             Fits(d, eh.e_phoff + (i - 1) * eh.e_phentsize, PHDR_SIZE)
        /\ \A i \in 1..eh.e_shnum :
             Fits(d, eh.e_shoff + (i - 1) * eh.e_shentsize, SHDR_SIZE)

Parse ==
  /\ pc = "parse"
  /\ IF ParseFits(data)
     THEN /\ ehdr' = parse_elf64_ehdr(data)
          /\ phdrs' = ParsePhdrs(data, parse_elf64_ehdr(data))
          /\ shdrs' = ParseShdrs(data, parse_elf64_ehdr(data))
          /\ pc' = "check"
          /\ status' = status
     ELSE /\ pc' = "idle"
          /\ status' = "struct_error"
          /\ UNCHANGED <<ehdr, phdrs, shdrs>>
  /\ UNCHANGED <<fs, runs, input_path, output_path, data, insertions,
                 cumulative_shift, new_data, shift_at, fs0, writes, produced, rerun>>

\* needs_fix with p_align <= PAGE_16K for p_align < PAGE_16K
needs_fix_le(phs) ==
  \E i \in 1..Len(phs) : phs[i].p_type = PT_LOAD /\ phs[i].p_align <= PAGE_16K

needs_fix(phs) ==
  \E i \in 1..Len(phs) : phs[i].p_type = PT_LOAD /\ phs[i].p_align < PAGE_16K

\* not needs_fix: report, copy the input to the output when the paths differ
AlreadyAligned ==
  /\ pc = "check"
  /\ ~needs_fix(phdrs)
  /\ IF input_path # output_path
     THEN /\ fs' = [fs EXCEPT ![output_path] = fs[input_path]]
          /\ writes' = Append(writes, output_path)
     ELSE UNCHANGED <<fs, writes>>
  /\ pc' = "idle"
  /\ status' = "ok_noop"
  /\ produced' = produced \cup {output_path}
  /\ UNCHANGED <<runs, input_path, output_path, locals, fs0, rerun>>

\* indices of the PT_LOAD headers, stably sorted by p_offset
load_indices(phs) ==
  LET L == {i \in 1..Len(phs) : phs[i].p_type = PT_LOAD}
      Before(j, i) == \/ phs[j].p_offset < phs[i].p_offset
                      \/ phs[j].p_offset = phs[i].p_offset /\ j < i
  IN [r \in 1..Cardinality(L) |->
        CHOOSE i \in L : Cardinality({j \in L : Before(j, i)}) = r - 1]

RECURSIVE PlanInsertions(_, _, _, _, _)
PlanInsertions(phs, li, k, ins, cum) ==
  IF k > Len(li) THEN [insertions |-> ins, cumulative_shift |-> cum]
  ELSE LET ph == phs[li[k]]
           old_off == ph.p_offset
           new_off == old_off + cum
           pad == needed_padding(new_off, ph.p_vaddr, PAGE_16K)
       IN IF pad > 0
          THEN PlanInsertions(phs, li, k + 1, Append(ins, <<old_off, pad>>), cum + pad)
          ELSE PlanInsertions(phs, li, k + 1, ins, cum)

Analyze ==
  /\ pc = "check"
  /\ needs_fix(phdrs)
  /\ LET plan == PlanInsertions(phdrs, load_indices(phdrs), 1, <<>>, 0)
     IN /\ insertions' = plan.insertions
        /\ cumulative_shift' = plan.cumulative_shift
        /\ pc' = IF plan.cumulative_shift = 0 THEN "align" ELSE "rewrite"
  /\ UNCHANGED <<fs, status, runs, input_path, output_path, data, ehdr, phdrs,
                 shdrs, new_data, shift_at, fs0, writes, produced, rerun>>

SetAlign(phs) ==
  [i \in 1..Len(phs) |->
     IF phs[i].p_type = PT_LOAD THEN [phs[i] EXCEPT !.p_align = PAGE_16K] ELSE phs[i]]

RECURSIVE WritePhdrsInPlace(_, _, _, _)
WritePhdrsInPlace(buf, eh, phs, i) ==
  IF i > Len(phs) THEN buf
  ELSE LET off == eh.e_phoff + (i - 1) * eh.e_phentsize
       IN WritePhdrsInPlace(
            SliceAssign(buf, off, off + eh.e_phentsize, FromBytes(pack_elf64_phdr(phs[i]))),
            eh, phs, i + 1)

\* cumulative_shift == 0: patch p_align, re-serialize the program headers
AlignOnly ==
  /\ pc = "align"
  /\ phdrs' = SetAlign(phdrs)
  /\ data' = WritePhdrsInPlace(data, ehdr, SetAlign(phdrs), 1)
  /\ fs' = [fs EXCEPT ![output_path] = WritePhdrsInPlace(data, ehdr, SetAlign(phdrs), 1)]
  /\ writes' = Append(writes, output_path)
  /\ pc' = "idle"
  /\ status' = "ok_aligned"
  /\ produced' = produced \cup {output_path}
  /\ UNCHANGED <<runs, input_path, output_path, ehdr, shdrs, insertions,
                 cumulative_shift, new_data, shift_at, fs0, rerun>>

\* sort of the insertions by old offset (stable)
SortInsertions(ins) ==
  LET Before(j, i) == ins[j][1] < ins[i][1] \/ (ins[j][1] = ins[i][1] /\ j < i)
  IN [r \in 1..Len(ins) |->
        ins[CHOOSE i \in 1..Len(ins) :
              Cardinality({j \in 1..Len(ins) : Before(j, i)}) = r - 1]]

RECURSIVE BuildNewData(_, _, _, _, _, _, _)
BuildNewData(d, ins, k, nd, prev_end, cum, sa) ==
  IF k > Len(ins)
  THEN [new_data |-> Extend(nd, Slice(d, prev_end, d.len)), shift_at |-> sa]
  ELSE LET old_off == ins[k][1]
           pad == ins[k][2]
       IN BuildNewData(d, ins, k + 1,
            Extend(Extend(nd, Slice(d, prev_end, old_off)), Zeros(pad)),
            old_off, cum + pad, Append(sa, <<old_off, cum + pad>>))

Rewrite ==
  /\ pc = "rewrite"
  /\ insertions' = SortInsertions(insertions)
  /\ LET r == BuildNewData(data, SortInsertions(insertions), 1, EmptyBuf, 0, 0, <<>>)
     IN new_data' = r.new_data /\ shift_at' = r.shift_at
  /\ pc' = "patch"
  /\ UNCHANGED <<fs, status, runs, input_path, output_path, data, ehdr, phdrs,
                 shdrs, cumulative_shift, fs0, writes, produced, rerun>>

\* the loop of shifted_offset with old_offset > boundary for >=
RECURSIVE ShiftLoopStrict(_, _, _, _)
ShiftLoopStrict(sa, k, old_offset, result) ==
  IF k > Len(sa) THEN result
  ELSE IF old_offset > sa[k][1]
       THEN ShiftLoopStrict(sa, k + 1, old_offset, old_offset + sa[k][2])
       ELSE result

RECURSIVE ShiftLoop(_, _, _, _)
ShiftLoop(sa, k, old_offset, result) ==
  IF k > Len(sa) THEN result
  ELSE IF old_offset >= sa[k][1]
       THEN ShiftLoop(sa, k + 1, old_offset, old_offset + sa[k][2])
       ELSE result

shifted_offset(old_offset) == ShiftLoop(shift_at, 1, old_offset, old_offset)

PatchPhdrs(phs) ==
  [i \in 1..Len(phs) |->
     IF phs[i].p_type = PT_LOAD
     THEN [phs[i] EXCEPT !.p_offset = shifted_offset(phs[i].p_offset),
                         !.p_align = PAGE_16K]
     ELSE [phs[i] EXCEPT !.p_offset = shifted_offset(phs[i].p_offset)]]

PatchShdrs(shs) ==
  [i \in 1..Len(shs) |-> [shs[i] EXCEPT !.sh_offset = shifted_offset(shs[i].sh_offset)]]

RECURSIVE WritePhdrs(_, _, _, _, _)
WritePhdrs(buf, base, entsize, phs, i) ==
  IF i > Len(phs) THEN buf
  ELSE LET off == base + (i - 1) * entsize
       IN WritePhdrs(SliceAssign(buf, off, off + PHDR_SIZE, FromBytes(pack_elf64_phdr(phs[i]))),
                     base, entsize, phs, i + 1)

RECURSIVE WriteShdrs(_, _, _, _, _)
WriteShdrs(buf, base, entsize, shs, i) ==
  IF i > Len(shs) THEN buf
  ELSE LET off == base + (i - 1) * entsize
       IN WriteShdrs(SliceAssign(buf, off, off + SHDR_SIZE, FromBytes(pack_elf64_shdr(shs[i]))),
                     base, entsize, shs, i + 1)

\* the buffer written to the output path by the full rewrite
Serialized(nd, eh, phs, shs) ==
  LET new_ehdr_phoff == shifted_offset(eh.e_phoff)
      new_ehdr_shoff == shifted_offset(eh.e_shoff)
      b1 == PackInto(nd, phoff_pos, LE(new_ehdr_phoff, OFF_SIZE))
      b2 == PackInto(b1, shoff_pos, LE(new_ehdr_shoff, OFF_SIZE))
      b3 == WritePhdrs(b2, new_ehdr_phoff, eh.e_phentsize, phs, 1)
  IN WriteShdrs(b3, new_ehdr_shoff, eh.e_shentsize, shs, 1)

Patch ==
  /\ pc = "patch"
  /\ phdrs' = PatchPhdrs(phdrs)
  /\ shdrs' = PatchShdrs(shdrs)
  /\ new_data' = Serialized(new_data, ehdr, PatchPhdrs(phdrs), PatchShdrs(shdrs))
  /\ fs' = [fs EXCEPT ![output_path] =
                         Serialized(new_data, ehdr, PatchPhdrs(phdrs), PatchShdrs(shdrs))]
  /\ writes' = Append(writes, output_path)
  /\ pc' = "idle"
  /\ status' = "ok_rewritten"
  /\ produced' = produced \cup {output_path}
  /\ UNCHANGED <<runs, input_path, output_path, data, ehdr, insertions,
                 cumulative_shift, shift_at, fs0, rerun>>

Next ==
  \/ \E inp \in {"lib", "out"}, outp \in {"none", "out"} : Main(inp, outp)
  \/ ReadValidate
  \/ Parse
  \/ AlreadyAligned
  \/ Analyze
  \/ AlignOnly
  \/ Rewrite
  \/ Patch

Spec == Init /\ [][Next]_vars

\* ------------------------------------------------------------ sanity
\* no field that the program computes with or re-encodes was collapsed to Huge
Exact(r) == \A f \in DOMAIN r : r[f] < Huge
NoHuge ==
  pc \in {"align", "rewrite", "patch"} \/ status \in {"ok_aligned", "ok_rewritten"}
    => /\ \A f \in DOMAIN ehdr \ {"e_ident"} : ehdr[f] < Huge
       /\ \A i \in 1..Len(phdrs) : Exact(phdrs[i])
       /\ \A i \in 1..Len(shdrs) : Exact(shdrs[i])

\* ------------------------------------------------------------ properties
OkStatus == {"ok_noop", "ok_aligned", "ok_rewritten"}
Finished == pc = "idle" /\ status \notin {"none", "running"}
Succeeded == pc = "idle" /\ status \in OkStatus
In == fs0[input_path]
Out == fs[output_path]

RECURSIVE SumPads(_, _)
SumPads(ins, k) == IF k > Len(ins) THEN 0 ELSE ins[k][2] + SumPads(ins, k + 1)

RECURSIVE PadUpTo(_, _, _)
PadUpTo(ins, k, o) ==
  IF k > Len(ins) THEN 0
  ELSE (IF ins[k][1] <= o THEN ins[k][2] ELSE 0) + PadUpTo(ins, k + 1, o)

\* shift(o) = o + the padding of every insertion point whose old offset is <= o
Shift(o) == o + PadUpTo(insertions, 1, o)

Congruent(ph) == ph.p_offset % PAGE_16K = ph.p_vaddr % PAGE_16K

OutEhdr == parse_elf64_ehdr(Out)
OutPhdrs == ParsePhdrs(Out, OutEhdr)
OutShdrs == ParseShdrs(Out, OutEhdr)
InEhdr == parse_elf64_ehdr(In)
InPhdrs == ParsePhdrs(In, InEhdr)
InShdrs == ParseShdrs(In, InEhdr)

\* C1: after a successful realign_elf every PT_LOAD program header of the
\* output has p_offset mod 16384 = p_vaddr mod 16384 and p_align = 16384,
\* whichever path produced the output.
C1_Congruence ==
  Succeeded /\ ParseFits(Out) =>
    \A i \in 1..Len(OutPhdrs) :
      OutPhdrs[i].p_type = PT_LOAD =>
        Congruent(OutPhdrs[i]) /\ OutPhdrs[i].p_align = PAGE_16K

\* C2: realign_elf applied to the output of a successful realign_elf
\* succeeds and writes a file byte-identical to that output.
C2_Idempotence ==
  Finished /\ rerun => status \in OkStatus /\ Out = In

\* C3: in the full rewrite the e_phoff, e_shoff, every p_offset and every
\* sh_offset of the output equal shift(original value); an offset on an
\* insertion boundary moves by the padding inserted there, and
\* shifted_offset is shift and is monotonic.
ProbeOffsets ==
  ({0, In.len} \cup UNION {{insertions[k][1] - 1, insertions[k][1], insertions[k][1] + 1} :
                             k \in 1..Len(insertions)}) \ {-1}

C3_OffsetConsistency ==
  Succeeded /\ status = "ok_rewritten" =>
    /\ U(Out, phoff_pos, OFF_SIZE) = Shift(InEhdr.e_phoff)
    /\ U(Out, shoff_pos, OFF_SIZE) = Shift(InEhdr.e_shoff)
    /\ \A i \in 1..InEhdr.e_phnum :
         U(Out, Shift(InEhdr.e_phoff) + (i - 1) * InEhdr.e_phentsize + 8, OFF_SIZE)
           = Shift(InPhdrs[i].p_offset)
    /\ \A i \in 1..InEhdr.e_shnum :
         U(Out, Shift(InEhdr.e_shoff) + (i - 1) * InEhdr.e_shentsize + 24, OFF_SIZE)
           = Shift(InShdrs[i].sh_offset)
    /\ \A k \in 1..Len(insertions) :
         shifted_offset(insertions[k][1]) >= insertions[k][1] + insertions[k][2]
    /\ \A a \in ProbeOffsets :
         /\ shifted_offset(a) = Shift(a)
         /\ \A b \in ProbeOffsets : a <= b => shifted_offset(a) <= shifted_offset(b)

C3_Witness ==
  /\ Succeeded /\ status = "ok_rewritten"
  /\ \E i \in 1..Len(InPhdrs), k \in 1..Len(insertions) :
       /\ InPhdrs[i].p_type \notin {PT_LOAD, PT_PHDR}
       /\ InPhdrs[i].p_offset = insertions[k][1]
       /\ phdrs[i].p_offset = InPhdrs[i].p_offset + insertions[k][2]
  /\ \E i \in 1..Len(InShdrs) : shdrs[i].sh_offset > InShdrs[i].sh_offset

\* C4: len(output) = len(input) + the sum of the padding of all insertion
\* points, and every padding is in [0, 16383].
C4_SizeLaw ==
  Succeeded =>
    /\ Out.len = In.len + SumPads(insertions, 1)
    /\ \A k \in 1..Len(insertions) : insertions[k][2] \in 0..(PAGE_16K - 1)

HasMagic(d) == d.len >= 4 /\ \A i \in 0..3 : ByteAt(d, i) = Magic[i + 1]
Is64(d) == d.len > EI_CLASS /\ ByteAt(d, EI_CLASS) = ELFCLASS64
Written == {writes[k] : k \in 1..Len(writes)}

\* C5: an input without the ELF magic, or whose class byte is not 2, fails
\* with an error, the magic being checked first, and no file at all has been
\* written when it fails: not the output, not the input, not the .bak backup.
C5_NoWriteAtAll ==
  Finished /\ (~HasMagic(In) \/ ~Is64(In)) =>
    /\ status \in {"not_elf", "bad_class", "index_error"}
    /\ ~HasMagic(In) => status = "not_elf"
    /\ fs = fs0

\* C5, amended: such an input fails with an error, the magic being checked
\* first, and neither the input path nor the output path has been written;
\* the one file written is, in in-place mode, the .bak backup that main
\* copies from the input before realign_elf starts.
C5_ValidationBeforeOutput ==
  Finished /\ (~HasMagic(In) \/ ~Is64(In)) =>
    /\ status \in {"not_elf", "bad_class", "index_error"}
    /\ ~HasMagic(In) => status = "not_elf"
    /\ \/ writes = <<>> /\ fs = fs0
       \/ writes = <<Bak(input_path)>> /\ fs = [fs0 EXCEPT ![Bak(input_path)] = In]
    /\ fs[input_path] = In
    /\ fs[output_path] = fs0[output_path]

C5_Witness ==
  /\ Finished /\ status = "not_elf"
  /\ In.len > EI_CLASS /\ ~Is64(In)
  /\ writes = <<Bak(input_path)>>
  /\ fs # fs0

MaxPage == 8

PadLaw(c, v, ps) ==
  LET p == needed_padding(c, v, ps)
      cur == c % ps
      want == v % ps
  IN /\ p \in 0..(ps - 1)
     /\ (c + p) % ps = v % ps
     /\ \A q \in 0..(p - 1) : (c + q) % ps # v % ps
     /\ p = IF want >= cur THEN want - cur ELSE ps - cur + want

RECURSIVE CumPad(_, _, _)
CumPad(phs, li, k) ==
  IF k = 0 THEN 0
  ELSE LET before == CumPad(phs, li, k - 1)
       IN before + needed_padding(phs[li[k]].p_offset + before, phs[li[k]].p_vaddr, PAGE_16K)

C7_NeededPadding ==
  pc \in {"align", "rewrite"} =>
    LET li == load_indices(phdrs)
        cur(k) == phdrs[li[k]].p_offset + CumPad(phdrs, li, k - 1)
        planned == [k \in 1..Len(li) |->
                      <<phdrs[li[k]].p_offset, CumPad(phdrs, li, k) - CumPad(phdrs, li, k - 1)>>]
    IN /\ {li[k] : k \in 1..Len(li)} = {i \in 1..Len(phdrs) : phdrs[i].p_type = PT_LOAD}
       /\ \A k \in 1..(Len(li) - 1) : phdrs[li[k]].p_offset <= phdrs[li[k + 1]].p_offset
       /\ \A k \in 1..Len(li) :
            /\ PadLaw(cur(k), phdrs[li[k]].p_vaddr, PAGE_16K)
            /\ \A ps \in 1..MaxPage : PadLaw(cur(k), phdrs[li[k]].p_vaddr, ps)
       /\ \A ps \in 1..MaxPage, c \in 0..MaxPage, v \in 0..MaxPage : PadLaw(c, v, ps)
       /\ insertions = SelectSeq(planned, LAMBDA x : x[2] > 0)
       /\ cumulative_shift = CumPad(phdrs, li, Len(li))

C7_Witness ==
  /\ pc = "rewrite"
  /\ Len(insertions) = 2
  /\ insertions[1] = <<0, 8>>
  /\ insertions[2] = <<1000, PAGE_16K - 1008>>

\* C8: in the alignment-only path the output differs from the input only in
\* the p_align field of the PT_LOAD headers, each set to 16384: same size, no
\* byte outside those fields changes; and whenever some padding is non-zero
\* the buffer is rebuilt.
InAlignField(pos) ==
  \E i \in 1..Len(InPhdrs) :
    /\ InPhdrs[i].p_type = PT_LOAD
    /\ pos - (InEhdr.e_phoff + (i - 1) * InEhdr.e_phentsize) \in 48..55

C8_AlignOnlyFrame ==
  /\ Succeeded /\ status = "ok_aligned" =>
       /\ Out.len = In.len
       /\ \A pos \in 0..(In.len - 1) :
            ~InAlignField(pos) => ByteAt(Out, pos) = ByteAt(In, pos)
       /\ \A i \in 1..Len(InPhdrs) :
            InPhdrs[i].p_type = PT_LOAD =>
              U(Out, InEhdr.e_phoff + (i - 1) * InEhdr.e_phentsize + 48, 8) = PAGE_16K
  /\ Succeeded /\ cumulative_shift > 0 => status = "ok_rewritten"

\* C9: in the full rewrite every input byte outside the e_phoff/e_shoff
\* fields and the two header tables is found at shift(its offset) in the
\* output, and every inserted padding byte not covered by a re-serialized
\* header table is zero.
InOldHeaders(o) ==
  \/ o \in phoff_pos..(shoff_pos + OFF_SIZE - 1)
  \/ o - InEhdr.e_phoff \in 0..(InEhdr.e_phnum * InEhdr.e_phentsize - 1)
  \/ o - InEhdr.e_shoff \in 0..(InEhdr.e_shnum * InEhdr.e_shentsize - 1)

InNewTables(n) ==
  \/ n - Shift(InEhdr.e_phoff) \in 0..(InEhdr.e_phnum * InEhdr.e_phentsize - 1)
  \/ n - Shift(InEhdr.e_shoff) \in 0..(InEhdr.e_shnum * InEhdr.e_shentsize - 1)

InPadding(n) ==
  \E k \in 1..Len(insertions) :
    n - (insertions[k][1] + SumPads(SubSeq(insertions, 1, k - 1), 1)) \in 0..(insertions[k][2] - 1)

C9_ContentPreservation ==
  Succeeded /\ status = "ok_rewritten" =>
    /\ \A o \in 0..(In.len - 1) :
         ~InOldHeaders(o) => ByteAt(Out, Shift(o)) = ByteAt(In, o)
    /\ \A n \in DOMAIN Out.nz : InPadding(n) => InNewTables(n)

\* C10: after a full rewrite the Header Reader applied to the output yields
\* the patched records: the same ELF header with e_phoff and e_shoff
\* shifted, and the program and section headers that were serialized; both
\* tables lie inside the output.
C10_HeaderRoundTrip ==
  Succeeded /\ status = "ok_rewritten" =>
    /\ ParseFits(Out)
    /\ OutEhdr = [ehdr EXCEPT !.e_phoff = shifted_offset(ehdr.e_phoff),
                              !.e_shoff = shifted_offset(ehdr.e_shoff)]
    /\ OutPhdrs = phdrs
    /\ OutShdrs = shdrs

====
